---- MODULE Spec2Model ----
(***************************************************************************)
(* MyFi item-based collaborative filtering engines (ItemBasedCF and        *)
(* PerBookItemCF): identifier reconciliation tables, rating matrix,        *)
(* cached similarity matrix and threshold-filtered top-N retrieval.        *)
(*                                                                         *)
(* Identifiers are strings in the code.  Here a string is a sequence of    *)
(* chunks: the chunk "/works/", a chunk that has the shape OL<digits>W,    *)
(* or a chunk of other text that holds neither.  Prefix tests, slicing     *)
(* and the two regular expressions of the code act on the chunks.          *)
(* Similarities are fixed-point numbers: an integer s stands for s/Scale.  *)
(***************************************************************************)
EXTENDS Integers, Sequences, FiniteSets, TLC

VARIABLES
    cls,                 \* "ItemBasedCF" or "PerBookItemCF"
    ol_to_sg_mapping,    \* self.ol_to_sg_mapping
    sg_to_ol_mapping,    \* self.sg_to_ol_mapping
    book_id_to_index,    \* self.book_id_to_index
    index_to_book_id,    \* self.index_to_book_id
    metadata,            \* self.metadata
    similarity_matrix,   \* self.similarity_matrix (None or a matrix)
    rating_matrix,       \* self.rating_matrix (PerBookItemCF only)
    test_books,          \* collection test.books (catalog)
    users,               \* collection storygraph_data.users (rating store)
    books_collection,    \* collection storygraph_data.books, by book_id
    last,                \* the last operation: its inputs and what it returned
    calls,               \* the last two compute_similarity calls, newest last
    n_saves,             \* save_ratings_to_mongodb calls so far
    req_computes,        \* computations started by recommendation requests
    threads,             \* the requests running on the instance at once, by thread
    scraper              \* the scrape_book call of the scraper: its local variables

vars == <<cls, ol_to_sg_mapping, sg_to_ol_mapping, book_id_to_index,
          index_to_book_id, metadata, similarity_matrix, rating_matrix,
          test_books, users, books_collection, last, calls, n_saves,
          req_computes, threads, scraper>>

----------------------------------------------------------------------------
(* Strings as sequences of chunks *)

WORKS == "/works/"

KeyChunks == {"OL1W", "OL2W", "OL3W", "OL4W", "OL9W"}

S(c) == <<c>>

\* f"/works/{x}"
WithPrefix(x) == <<WORKS>> \o x

\* x.startswith('/works/')
StartsWithWorks(x) == Len(x) > 0 /\ x[1] = WORKS

\* x[7:] for an x that starts with '/works/'
StripPrefix(x) == Tail(x)

\* re.match(r'^OL\d+W$', x)
IsBareKey(x) == Len(x) = 1 /\ x[1] \in KeyChunks

\* '/works/' in x
ContainsWorks(x) == \E i \in 1..Len(x) : x[i] = WORKS

PathMatches(x) == {i \in 1..Len(x) : x[i] = WORKS /\ i < Len(x) /\ x[i+1] \in KeyChunks}

Min(s) == CHOOSE m \in s : \A k \in s : m <= k

\* re.search(r'\/works\/(OL\d+W)', x): <<>> when there is no match, else <<group(1)>>
SearchPathKey(x) ==
    IF PathMatches(x) = {} THEN <<>> ELSE << S(x[Min(PathMatches(x)) + 1]) >>

KeyMatches(x) == {i \in 1..Len(x) : x[i] \in KeyChunks}

\* re.search(r'(OL\d+W)', x)
SearchKey(x) ==
    IF KeyMatches(x) = {} THEN <<>> ELSE << S(x[Min(KeyMatches(x))]) >>

----------------------------------------------------------------------------
(* Python dict and Optional *)

None == <<>>
Some(v) == <<v>>
Val(o) == o[1]

EmptyDict == [k \in {} |-> <<>>]

Put(d, k, v) == [x \in (DOMAIN d) \cup {k} |-> IF x = k THEN v ELSE d[x]]

Has(doc, f) == f \in DOMAIN doc

\* the function f over the finite set D, written out entry by entry (a dict or
\* an array holds values, not the expressions that gave them)
RECURSIVE Table(_, _)
Table(f, D) ==
    IF D = {} THEN EmptyDict
    ELSE LET x == CHOOSE y \in D : TRUE
         IN  (x :> f[x]) @@ Table(f, D \ {x})

----------------------------------------------------------------------------
(* __init__: the identifier tables, the column index and the metadata *)

\* one pass of the loop over test.books (ol_books)
OlBookStep(t, book) ==
    LET ol_id == book._id
        m1 == Put(t.f, ol_id, ol_id)
        m2 == IF StartsWithWorks(ol_id) THEN Put(m1, StripPrefix(ol_id), ol_id)
              ELSE IF IsBareKey(ol_id) THEN Put(m1, WithPrefix(ol_id), ol_id)
              ELSE m1
    IN  IF Has(book, "book_id")
        THEN [f |-> Put(m2, ol_id, book.book_id), r |-> Put(t.r, book.book_id, ol_id)]
        ELSE [f |-> m2, r |-> t.r]

\* a pass of the loop over sg_books that keeps an entry already in the table
SgBookStepKeepFirst(t, book) ==
    LET sg_id == book.book_id
        km == SearchKey(sg_id)
    IN  IF km # None /\ Val(km) \notin DOMAIN t.f
        THEN [f |-> Put(Put(t.f, Val(km), sg_id), WithPrefix(Val(km)), sg_id),
              r |-> Put(t.r, sg_id, WithPrefix(Val(km)))]
        ELSE t

\* one pass of the loop over storygraph_data.books (sg_books)
SgBookStep(t, book) ==
    LET sg_id == book.book_id
        pm == IF ContainsWorks(sg_id) THEN SearchPathKey(sg_id) ELSE None
        t1 == IF pm # None
              THEN [f |-> Put(Put(t.f, Val(pm), sg_id), WithPrefix(Val(pm)), sg_id),
                    r |-> Put(t.r, sg_id, WithPrefix(Val(pm)))]
              ELSE t
        km == SearchKey(sg_id)
    IN  IF km # None
        THEN [f |-> Put(Put(t1.f, Val(km), sg_id), WithPrefix(Val(km)), sg_id),
              r |-> Put(t1.r, sg_id, WithPrefix(Val(km)))]
        ELSE t1

RECURSIVE OlLoop(_, _)
OlLoop(books, t) ==
    IF books = <<>> THEN t ELSE OlLoop(Tail(books), OlBookStep(t, Head(books)))

RECURSIVE SgLoop(_, _)
SgLoop(books, t) ==
    IF books = <<>> THEN t ELSE SgLoop(Tail(books), SgBookStep(t, Head(books)))

\* the two mapping tables after both loops
BuildIdMapping(ol_books, sg_books) ==
    SgLoop(sg_books, OlLoop(ol_books, [f |-> EmptyDict, r |-> EmptyDict]))

\* for i, book in enumerate(books): book_id_to_index[book_id] = i
RECURSIVE BuildBookIndex(_, _, _)
BuildBookIndex(books, i, d) ==
    IF books = <<>> THEN d
    ELSE BuildBookIndex(Tail(books), i + 1, Put(d, Head(books).book_id, i))

\* index_to_book_id[i] = book_id, for the same enumeration
BuildIndexToBook(books) == [i \in 0..(Len(books) - 1) |-> books[i + 1].book_id]

\* the metadata entry of a catalog book; cover_id is None when the book has none
MetaOf(book) ==
    [title |-> IF Has(book, "title") THEN book.title ELSE "Unknown",
     author_names |-> IF Has(book, "author_names") THEN book.author_names ELSE <<>>,
     description |-> IF Has(book, "description") THEN book.description ELSE "",
     cover_id |-> IF Has(book, "cover_id") THEN Some(book.cover_id) ELSE None]

MetaStep(d, book) ==
    LET book_id == book._id
        d1 == Put(d, book_id, MetaOf(book))
    IN  IF StartsWithWorks(book_id) THEN Put(d1, StripPrefix(book_id), d1[book_id])
        ELSE IF IsBareKey(book_id) THEN Put(d1, WithPrefix(book_id), d1[book_id])
        ELSE d1

RECURSIVE BuildMetadata(_, _)
BuildMetadata(books, d) ==
    IF books = <<>> THEN d ELSE BuildMetadata(Tail(books), MetaStep(d, Head(books)))

----------------------------------------------------------------------------
(* normalize_book_id *)

\* the lookup by the identifier as given only
NormalizeExactOnly(book_id) ==
    IF book_id \in DOMAIN ol_to_sg_mapping THEN ol_to_sg_mapping[book_id] ELSE book_id

normalize_book_id(book_id) ==
    IF book_id \in DOMAIN ol_to_sg_mapping THEN ol_to_sg_mapping[book_id]
    ELSE IF ~StartsWithWorks(book_id) /\ IsBareKey(book_id)
            /\ WithPrefix(book_id) \in DOMAIN ol_to_sg_mapping
         THEN ol_to_sg_mapping[WithPrefix(book_id)]
    ELSE IF StartsWithWorks(book_id) /\ StripPrefix(book_id) \in DOMAIN ol_to_sg_mapping
         THEN ol_to_sg_mapping[StripPrefix(book_id)]
    ELSE book_id

----------------------------------------------------------------------------
(* build_rating_matrix *)

\* the triples of a list where a record of an unlisted book lands in column 0
RECURSIVE UserTriplesUnknownFirst(_, _)
UserTriplesUnknownFirst(book_ratings, user_idx) ==
    IF book_ratings = <<>> THEN <<>>
    ELSE LET rating_item == Head(book_ratings)
             rest == UserTriplesUnknownFirst(Tail(book_ratings), user_idx)
         IN  IF ~Has(rating_item, "book_id") \/ ~Has(rating_item, "rating") THEN rest
             ELSE <<[v |-> rating_item.rating, row |-> user_idx,
                     col |-> IF rating_item.book_id \in DOMAIN book_id_to_index
                             THEN book_id_to_index[rating_item.book_id] ELSE 0]>> \o rest

\* the (value, row, column) triples one user's book_ratings list appends
RECURSIVE UserTriples(_, _)
UserTriples(book_ratings, user_idx) ==
    IF book_ratings = <<>> THEN <<>>
    ELSE LET rating_item == Head(book_ratings)
             rest == UserTriples(Tail(book_ratings), user_idx)
         IN  IF ~Has(rating_item, "book_id") \/ ~Has(rating_item, "rating") THEN rest
             ELSE IF rating_item.book_id \in DOMAIN book_id_to_index
                  THEN <<[v |-> rating_item.rating, row |-> user_idx,
                          col |-> book_id_to_index[rating_item.book_id]]>> \o rest
                  ELSE rest

\* the loop over the cursor giving every document a row of its own
RECURSIVE UserLoopRowPerDoc(_, _)
UserLoopRowPerDoc(docs, st) ==
    IF docs = <<>> THEN st
    ELSE LET user == Head(docs)
             book_ratings == IF Has(user, "book_ratings") THEN user.book_ratings ELSE <<>>
         IN  UserLoopRowPerDoc(Tail(docs),
                               [user_count |-> st.user_count + 1,
                                triples |-> st.triples
                                            \o UserTriples(book_ratings, st.user_count)])

\* the loop over the cursor: st = [user_count, triples]
RECURSIVE UserLoop(_, _)
UserLoop(docs, st) ==
    IF docs = <<>> THEN st
    ELSE LET user == Head(docs)
             book_ratings == IF Has(user, "book_ratings") THEN user.book_ratings ELSE <<>>
             new == UserTriples(book_ratings, st.user_count)
         IN  IF book_ratings = <<>> THEN UserLoop(Tail(docs), st)
             ELSE UserLoop(Tail(docs),
                           [user_count |-> IF new # <<>> THEN st.user_count + 1
                                           ELSE st.user_count,
                            triples |-> st.triples \o new])

\* user_count taken as it is, without the floor of one row
UserCountOnly(a, b) == a

Max(a, b) == IF a >= b THEN a ELSE b

\* csr_matrix((data, (rows, cols)), shape): entries at the same place are summed
CsrMatrix(triples, n_users, n_items) ==
    LET places == {<<triples[k].row, triples[k].col>> : k \in 1..Len(triples)}
        At(p) == {k \in 1..Len(triples) : <<triples[k].row, triples[k].col>> = p}
        RECURSIVE SumAt(_)
        SumAt(ks) == IF ks = {} THEN 0
                     ELSE LET k == CHOOSE x \in ks : TRUE
                          IN  triples[k].v + SumAt(ks \ {k})
    IN  [n_users |-> n_users, n_items |-> n_items,
         cells |-> Table([p \in places |-> SumAt(At(p))], places)]

\* the body of build_rating_matrix over the documents the query returns
BuildRatingMatrix(store) ==
    LET st == UserLoop(store, [user_count |-> 0, triples |-> <<>>])
        n_users == Max(st.user_count, 1)
        n_items == Cardinality(DOMAIN book_id_to_index)
    IN  IF Len(st.triples) = 0
        THEN [n_users |-> n_users, n_items |-> n_items, cells |-> EmptyDict]
        ELSE CsrMatrix(st.triples, n_users, n_items)

\* rating_matrix.nnz
Nnz(m) == Cardinality(DOMAIN m.cells)

Cell(m, u, i) == IF <<u, i>> \in DOMAIN m.cells THEN m.cells[<<u, i>>] ELSE 0

----------------------------------------------------------------------------
(* compute_similarity: centering and batched cosine similarity *)

Scale == 20

batch_size == 500

\* f[lo] + ... + f[hi]
RECURSIVE SumOver(_, _, _)
SumOver(f, lo, hi) == IF lo > hi THEN 0 ELSE f[lo] + SumOver(f, lo + 1, hi)

\* the ratings left as they are, without centering (times n_items)
CenteredRowRaw(m, u) ==
    Table([i \in 0..(m.n_items - 1) |-> m.n_items * Cell(m, u, i)], 0..(m.n_items - 1))

\* n_items * (the centered matrix): the user mean is rating_matrix.mean(axis=1),
\* the row sum divided by the number of columns
CenteredRow(m, u) ==
    LET rowsum == SumOver([i \in 0..(m.n_items - 1) |-> Cell(m, u, i)], 0, m.n_items - 1)
    IN  Table([i \in 0..(m.n_items - 1) |->
                  IF Cell(m, u, i) # 0 THEN m.n_items * Cell(m, u, i) - rowsum ELSE 0],
              0..(m.n_items - 1))

Centered(m) == Table([u \in 0..(m.n_users - 1) |-> CenteredRow(m, u)], 0..(m.n_users - 1))

\* dot / sqrt(nn) in fixed point, rounded toward zero; 0 for a zero norm
FixedCos(dot, nn) ==
    IF nn = 0 \/ dot = 0 THEN 0
    ELSE LET k == CHOOSE x \in 0..Scale :
                     /\ x * x * nn <= Scale * Scale * dot * dot
                     /\ (x = Scale \/ (x + 1) * (x + 1) * nn > Scale * Scale * dot * dot)
         IN  IF dot < 0 THEN 0 - k ELSE k

\* the dot products divided by the squared norm of the batch row alone
CosineRowOwnNorm(c, n_users, n_items, i) ==
    LET Dot(a, b) == SumOver([u \in 0..(n_users - 1) |-> c[u][a] * c[u][b]], 0, n_users - 1)
    IN  Table([j \in 0..(n_items - 1) |-> FixedCos(Dot(i, j), Dot(i, i) * Dot(i, i))],
              0..(n_items - 1))

\* cosine_similarity(batch, item_matrix), one row of it: item i against all items
CosineRow(c, n_users, n_items, i) ==
    LET Dot(a, b) == SumOver([u \in 0..(n_users - 1) |-> c[u][a] * c[u][b]], 0, n_users - 1)
    IN  Table([j \in 0..(n_items - 1) |-> FixedCos(Dot(i, j), Dot(i, i) * Dot(j, j))],
              0..(n_items - 1))

\* the loop that leaves out a last batch shorter than the batch size
RECURSIVE BatchLoopFullOnly(_, _, _, _, _, _)
BatchLoopFullOnly(c, n_users, n_items, size, i, acc) ==
    IF i + size > n_items THEN acc
    ELSE LET end_idx == i + size
         IN  BatchLoopFullOnly(c, n_users, n_items, size, i + size,
                 [similarity_matrix |->
                      Table([r \in 0..(n_items - 1) |->
                                IF r >= i /\ r < end_idx
                                THEN CosineRow(c, n_users, n_items, r)
                                ELSE acc.similarity_matrix[r]],
                            0..(n_items - 1)),
                  writes |-> [r \in 0..(n_items - 1) |->
                                 IF r >= i /\ r < end_idx THEN acc.writes[r] + 1
                                 ELSE acc.writes[r]]])

\* the loop for i in range(0, n_items, size): rows i..end_idx-1 of
\* similarity_matrix are assigned cosine_similarity(batch, item_matrix);
\* writes counts the assignments each row has received
RECURSIVE BatchLoopBy(_, _, _, _, _, _)
BatchLoopBy(c, n_users, n_items, size, i, acc) ==
    IF i >= n_items THEN acc
    ELSE LET end_idx == IF i + size < n_items THEN i + size ELSE n_items
         IN  BatchLoopBy(c, n_users, n_items, size, i + size,
                 [similarity_matrix |->
                      Table([r \in 0..(n_items - 1) |->
                                IF r >= i /\ r < end_idx
                                THEN CosineRow(c, n_users, n_items, r)
                                ELSE acc.similarity_matrix[r]],
                            0..(n_items - 1)),
                  writes |-> [r \in 0..(n_items - 1) |->
                                 IF r >= i /\ r < end_idx THEN acc.writes[r] + 1
                                 ELSE acc.writes[r]]])

Zeros(n) == [i \in 0..(n - 1) |-> [j \in 0..(n - 1) |-> 0]]

\* similarity_matrix = np.zeros((n_items, n_items)), no row assigned yet
Unwritten(n) == [similarity_matrix |-> Zeros(n), writes |-> [r \in 0..(n - 1) |-> 0]]

\* the loop with the batch size of the code
BatchLoop(c, n_users, n_items) ==
    BatchLoopBy(c, n_users, n_items, batch_size, 0, Unwritten(n_items))

\* the similarity pass over a rating matrix that has entries
SimilarityOf(m) == BatchLoop(Centered(m), m.n_users, m.n_items).similarity_matrix

\* cosine_similarity(item_matrix, item_matrix) in one call
OnePass(c, n_users, n_items) ==
    [r \in 0..(n_items - 1) |-> CosineRow(c, n_users, n_items, r)]

\* build_rating_matrix as the method: PerBookItemCF returns self.rating_matrix
\* when it is set and stores what it builds; ItemBasedCF always builds
build_rating_matrix ==
    IF cls = "PerBookItemCF" /\ rating_matrix # None
    THEN [matrix |-> Val(rating_matrix), rm |-> rating_matrix, built |-> FALSE]
    ELSE LET m == BuildRatingMatrix(users)
         IN  [matrix |-> m,
              rm |-> IF cls = "PerBookItemCF" THEN Some(m) ELSE rating_matrix,
              built |-> TRUE]

\* if self.similarity_matrix is not None and not force_recompute
UseCached(force_recompute) == similarity_matrix # None /\ ~force_recompute

\* compute_similarity(force_recompute): what it returns (ret), the fields it
\* leaves (sim, rm), the rating matrix build_rating_matrix gave it (matrix, None
\* on the cached path), whether build_rating_matrix read the store (built) and
\* whether the similarity pass ran (passed)
compute_similarity(force_recompute) ==
    IF UseCached(force_recompute)
    THEN [ret |-> Val(similarity_matrix), sim |-> similarity_matrix,
          rm |-> rating_matrix, matrix |-> None, built |-> FALSE, passed |-> FALSE]
    ELSE LET b == build_rating_matrix
         IN  IF Nnz(b.matrix) = 0
             THEN [ret |-> Zeros(Cardinality(DOMAIN book_id_to_index)),
                   sim |-> similarity_matrix, rm |-> b.rm, matrix |-> Some(b.matrix),
                   built |-> b.built, passed |-> FALSE]
             ELSE LET Result(sm) == [ret |-> sm, sim |-> Some(sm), rm |-> b.rm,
                                     matrix |-> Some(b.matrix),
                                     built |-> b.built, passed |-> TRUE]
                  IN  Result(SimilarityOf(b.matrix))

\* the record of a compute_similarity call kept in calls; computed: the call
\* read the store or ran the similarity pass
CallRec(force_recompute, eff) ==
    [force_recompute |-> force_recompute, ret |-> eff.ret,
     computed |-> eff.built \/ eff.passed]

Push(cs, c) == IF Len(cs) < 2 THEN Append(cs, c) ELSE <<cs[2], c>>

----------------------------------------------------------------------------
(* Retrieval: ranking, seed and threshold filters, metadata *)

\* combined_similarity.argsort()[::-1]: the columns by descending score.  The
\* order argsort gives equal scores is not fixed by its sort kind, so every
\* order of the ties is a possible outcome.
\* combined_similarity.argsort() without the reversal: ascending scores
RECURSIVE ArgsortAscending(_, _)
ArgsortAscending(scores, cols) ==
    IF cols = {} THEN {<<>>}
    ELSE UNION {{<<x>> \o rest : rest \in ArgsortAscending(scores, cols \ {x})} :
                   x \in {y \in cols : \A z \in cols : scores[y] <= scores[z]}}

RECURSIVE ArgsortDescending(_, _)
ArgsortDescending(scores, cols) ==
    IF cols = {} THEN {<<>>}
    ELSE UNION {{<<x>> \o rest : rest \in ArgsortDescending(scores, cols \ {x})} :
                   x \in {y \in cols : \A z \in cols : scores[y] >= scores[z]}}

\* the seed test left out: no column is skipped as a seed
SkipNone(idx, indices) == FALSE

\* if idx in indices: continue   (PerBookItemCF: if idx == book_idx)
SkipSeed(idx, indices) == \E k \in 1..Len(indices) : indices[k] = idx

\* the threshold test with its comparison turned round
AboveThreshold(score, min_similarity) == score > min_similarity

\* if combined_similarity[idx] < min_similarity: continue
BelowThreshold(score, min_similarity) == score < min_similarity

\* the break test taken one record early
EnoughOneEarly(recommendations, n_recommendations) ==
    Len(recommendations) + 1 >= n_recommendations

\* if len(recommendations) >= n_recommendations: break
Enough(recommendations, n_recommendations) == Len(recommendations) >= n_recommendations

\* the rating-source id mapped back for the response
MapToOl(sg_book_id) ==
    IF sg_book_id \in DOMAIN sg_to_ol_mapping THEN sg_to_ol_mapping[sg_book_id]
    ELSE LET match == SearchPathKey(sg_book_id)
         IN  IF match # None THEN WithPrefix(Val(match)) ELSE sg_book_id

\* metadata by the exact id only
LookupMetaExactOnly(ol_book_id) ==
    IF ol_book_id \in DOMAIN metadata THEN Some(metadata[ol_book_id]) ELSE None

\* metadata by exact id, then without the prefix, then with it
LookupMeta(ol_book_id) ==
    IF ol_book_id \in DOMAIN metadata THEN Some(metadata[ol_book_id])
    ELSE IF StartsWithWorks(ol_book_id) /\ StripPrefix(ol_book_id) \in DOMAIN metadata
         THEN Some(metadata[StripPrefix(ol_book_id)])
    ELSE IF ~StartsWithWorks(ol_book_id) /\ WithPrefix(ol_book_id) \in DOMAIN metadata
         THEN Some(metadata[WithPrefix(ol_book_id)])
    ELSE None

\* the record appended for column idx; PerBookItemCF adds source_book, the
\* book_id the request was made with (source = Some(book_id))
Recommendation(idx, score, source) ==
    LET ol_book_id == MapToOl(index_to_book_id[idx])
        meta == LookupMeta(ol_book_id)
        rec == IF meta # None
               THEN [id |-> ol_book_id, title |-> Val(meta).title,
                     author_names |-> Val(meta).author_names,
                     description |-> Val(meta).description,
                     cover_id |-> Val(meta).cover_id,
                     similarity_score |-> score, method |-> "item_cf"]
               ELSE [id |-> ol_book_id, title |-> "Unknown", author_names |-> <<>>,
                     similarity_score |-> score, method |-> "item_cf"]
    IN  IF source # None THEN [source_book |-> Val(source)] @@ rec ELSE rec

\* for idx in similar_indices: ... ; acc = [recommendations, cols], cols being
\* the column each record was made from
RECURSIVE RecLoop(_, _, _, _, _, _, _, _)
RecLoop(similar_indices, pos, indices, scores, n_recommendations, min_similarity, source, acc) ==
    IF pos > Len(similar_indices) THEN acc
    ELSE LET idx == similar_indices[pos]
         IN  IF SkipSeed(idx, indices) \/ BelowThreshold(scores[idx], min_similarity)
             THEN RecLoop(similar_indices, pos + 1, indices, scores,
                          n_recommendations, min_similarity, source, acc)
             ELSE LET acc2 == [recommendations |->
                                   Append(acc.recommendations,
                                          Recommendation(idx, scores[idx], source)),
                               cols |-> Append(acc.cols, idx)]
                  IN  IF Enough(acc2.recommendations, n_recommendations) THEN acc2
                      ELSE RecLoop(similar_indices, pos + 1, indices, scores,
                                   n_recommendations, min_similarity, source, acc2)

\* combined_similarity: the sum of the seed rows divided by len(indices)
Combined(sm, indices, n_items) ==
    Table([c \in 0..(n_items - 1) |->
              SumOver([k \in 1..Len(indices) |-> sm[indices[k]][c]], 1, Len(indices))
                  \div Len(indices)],
          0..(n_items - 1))

----------------------------------------------------------------------------
(* The stores *)

\* test.users: the application's users and their finishedBooks
app_users ==
    [u_path  |-> [finishedBooks |-> <<[bookId |-> <<WORKS, "OL1W">>, rating |-> 5]>>],
     u_bare  |-> [finishedBooks |-> <<[bookId |-> <<"OL1W">>, rating |-> 4]>>],
     u_two   |-> [finishedBooks |-> <<[bookId |-> <<"OL1W">>, rating |-> 5],
                                      [bookId |-> <<WORKS, "OL2W">>, rating |-> 3]>>],
     u_dup   |-> [finishedBooks |-> <<[bookId |-> <<"OL1W">>, rating |-> 5],
                                      [bookId |-> <<WORKS, "OL1W">>, rating |-> 5]>>],
     u_dup3  |-> [finishedBooks |-> <<[bookId |-> <<"OL1W">>, rating |-> 5],
                                      [bookId |-> <<WORKS, "OL1W">>, rating |-> 5],
                                      [bookId |-> <<WORKS, "OL2W">>, rating |-> 2]>>],
     u_mixed |-> [finishedBooks |-> <<[bookId |-> <<"OL9W">>, rating |-> 2],
                                      [bookId |-> <<WORKS, "OL3W">>],
                                      [bookId |-> <<WORKS, "OL2W">>, rating |-> 4]>>],
     u_lost  |-> [finishedBooks |-> <<[bookId |-> <<"OL9W">>, rating |-> 1]>>],
     u_none  |-> [finishedBooks |-> <<>>]]

UserIds == (DOMAIN app_users) \cup {"nobody"}

\* get_user_rated_books: the bookId of every finished book with a rating
RECURSIVE RatedBooks(_)
RatedBooks(entries) ==
    IF entries = <<>> THEN <<>>
    ELSE IF Has(Head(entries), "bookId") /\ Has(Head(entries), "rating")
         THEN <<Head(entries).bookId>> \o RatedBooks(Tail(entries))
         ELSE RatedBooks(Tail(entries))

get_user_rated_books(user_id) ==
    IF user_id \notin DOMAIN app_users THEN <<>>
    ELSE RatedBooks(app_users[user_id].finishedBooks)

\* catalogs: test.books (metadata catalog) and storygraph_data.books (rating source)
CatKeyed ==
    [test_books |-> <<[_id |-> <<WORKS, "OL1W">>, title |-> "T1", author_names |-> <<"A1">>,
                       description |-> "D1", cover_id |-> 11],
                      [_id |-> <<WORKS, "OL2W">>, title |-> "T2"],
                      [_id |-> <<"OL3W">>, title |-> "T3", author_names |-> <<"A3">>]>>,
     sg_books |-> <<[book_id |-> <<"OL1W">>], [book_id |-> <<"OL2W">>],
                    [book_id |-> <<"OL3W">>], [book_id |-> <<"OL4W">>]>>]

CatOpaque ==
    [test_books |-> <<[_id |-> <<WORKS, "OL1W">>, book_id |-> <<"sg-a">>, title |-> "T1"],
                      [_id |-> <<WORKS, "OL2W">>, book_id |-> <<"sg-b">>, title |-> "T2"],
                      [_id |-> <<"OL3W">>, book_id |-> <<"sg-c">>, title |-> "T3"],
                      [_id |-> <<WORKS, "OL4W">>, title |-> "T4"]>>,
     sg_books |-> <<[book_id |-> <<"sg-a">>], [book_id |-> <<"sg-b">>],
                    [book_id |-> <<"sg-c">>], [book_id |-> <<"sg-d">>]>>]

CatEmbedded ==
    [test_books |-> <<[_id |-> <<WORKS, "OL1W">>, title |-> "T1"],
                      [_id |-> <<WORKS, "OL2W">>, title |-> "T2"],
                      [_id |-> <<WORKS, "OL3W">>, book_id |-> <<"sg-d">>]>>,
     sg_books |-> <<[book_id |-> <<"x", WORKS, "OL1W">>],
                    [book_id |-> <<"y", WORKS, "OL1W">>],
                    [book_id |-> <<"z-", "OL3W">>], [book_id |-> <<"sg-d">>]>>]

\* catalog ids that are no 'OL<n>W' keys, with and without the prefix
CatOdd ==
    [test_books |-> <<[_id |-> <<"ed-1">>, title |-> "E1"],
                      [_id |-> <<WORKS, "ed-2">>, book_id |-> <<"sg-b">>, title |-> "E2"],
                      [_id |-> <<"OL3W">>, title |-> "T3"]>>,
     sg_books |-> <<[book_id |-> <<"ed-1">>], [book_id |-> <<"sg-b">>],
                    [book_id |-> <<"OL3W">>], [book_id |-> <<WORKS, "ed-1">>],
                    [book_id |-> <<"sg-x">>]>>]

Catalogs == {CatKeyed, CatOpaque, CatEmbedded, CatOdd}

\* the catalog of three items A, B, C at columns 0, 1, 2
CatThree ==
    [test_books |-> <<[_id |-> <<WORKS, "OL1W">>, title |-> "A"],
                      [_id |-> <<WORKS, "OL2W">>, title |-> "B"],
                      [_id |-> <<WORKS, "OL3W">>, title |-> "C"]>>,
     sg_books |-> <<[book_id |-> <<"OL1W">>], [book_id |-> <<"OL2W">>],
                    [book_id |-> <<"OL3W">>]>>]

\* rating stores, by the column of the rated book; column 9 is a book the
\* rating source does not list; a record may lack its book (col) or its rating
StoreEmpty == <<>>

R(col, rating) == [col |-> col, rating |-> rating]

StoreBasic ==
    <<[username |-> "u1", ratings |-> <<R(0, 5), R(1, 4)>>],
      [username |-> "u2", ratings |-> <<R(0, 1), R(1, 2), R(2, 5)>>]>>

StoreTies ==
    <<[username |-> "u0", ratings |-> <<R(9, 3)>>],
      [username |-> "u1", ratings |-> <<R(0, 5), R(1, 1), R(2, 1)>>],
      [username |-> "ux", ratings |-> <<[col |-> 3], [rating |-> 2]>>],
      [username |-> "u2", ratings |-> <<R(0, 1), [col |-> 3], R(1, 5), R(2, 5), R(3, 4),
                                        R(9, 2)>>]>>

Stores == {StoreEmpty, StoreBasic, StoreTies}

UnlistedBook == <<"sg-unlisted">>

BookAt(sg_books, col) == IF col < Len(sg_books) THEN sg_books[col + 1].book_id ELSE UnlistedBook

\* the user documents of a store, for the rating-source ids of a catalog
UserDocs(store, sg_books) ==
    [k \in 1..Len(store) |->
        [username |-> store[k].username,
         book_ratings |-> [j \in 1..Len(store[k].ratings) |->
                              LET e == store[k].ratings[j]
                              IN  (IF Has(e, "col")
                                   THEN [book_id |-> BookAt(sg_books, e.col)]
                                   ELSE EmptyDict)
                                  @@ (IF Has(e, "rating") THEN [rating |-> e.rating]
                                      ELSE EmptyDict)]]]

----------------------------------------------------------------------------
(* save_ratings_to_mongodb (the scraper writing the rating store) *)

HasRated(doc, username, book_id) ==
    /\ doc.username = username
    /\ \E j \in 1..Len(doc.book_ratings) :
          Has(doc.book_ratings[j], "book_id") /\ doc.book_ratings[j].book_id = book_id

\* a pass that pushes the rating without looking for an entry of the book
SaveOneAlwaysPush(store, rating_data) ==
    LET username == rating_data.username
        rating_obj == [book_id |-> rating_data.book_id, rating |-> rating_data.rating]
    IN  IF \E k \in 1..Len(store) : store[k].username = username
        THEN [k \in 1..Len(store) |->
                 IF store[k].username = username
                 THEN [store[k] EXCEPT !.book_ratings = Append(@, rating_obj)]
                 ELSE store[k]]
        ELSE Append(store, [username |-> username, book_ratings |-> <<rating_obj>>])

\* one pass of the loop over ratings
SaveOne(store, rating_data) ==
    LET username == rating_data.username
        book_id == rating_data.book_id
        rating_obj == [book_id |-> book_id, rating |-> rating_data.rating]
        FirstAt(doc) == Min({j \in 1..Len(doc.book_ratings) :
                               Has(doc.book_ratings[j], "book_id")
                               /\ doc.book_ratings[j].book_id = book_id})
    IN  IF \E k \in 1..Len(store) : HasRated(store[k], username, book_id)
        THEN [k \in 1..Len(store) |->
                 IF HasRated(store[k], username, book_id)
                 THEN [store[k] EXCEPT !.book_ratings[FirstAt(store[k])] = rating_obj]
                 ELSE store[k]]
        ELSE IF \E k \in 1..Len(store) : store[k].username = username
        THEN [k \in 1..Len(store) |->
                 IF store[k].username = username
                 THEN [store[k] EXCEPT !.book_ratings = Append(@, rating_obj)]
                 ELSE store[k]]
        ELSE Append(store, [username |-> username, book_ratings |-> <<rating_obj>>])

\* update_book_stats: a book document is kept as its rating sum and count, its
\* avg_rating being rating_sum / total_ratings
update_book_stats(stats, book_id, new_rating) ==
    IF book_id \in DOMAIN stats
    THEN Put(stats, book_id, [stats[book_id] EXCEPT !.rating_sum = @ + new_rating,
                                                    !.total_ratings = @ + 1])
    ELSE Put(stats, book_id, [rating_sum |-> new_rating, total_ratings |-> 1,
                              last_page |-> 0, completed |-> FALSE])

\* the loop over ratings: st = [users, books]
RECURSIVE SaveAll(_, _)
SaveAll(st, ratings) ==
    IF ratings = <<>> THEN st
    ELSE LET rating_data == Head(ratings)
         IN  SaveAll([users |-> SaveOne(st.users, rating_data),
                      books |-> update_book_stats(st.books, rating_data.book_id,
                                                  rating_data.rating)],
                     Tail(ratings))

\* the documents of storygraph_data.books before any rating is saved
RECURSIVE BookDocs(_)
BookDocs(sg_books) ==
    IF sg_books = <<>> THEN EmptyDict
    ELSE Put(BookDocs(Tail(sg_books)), Head(sg_books).book_id,
             [rating_sum |-> 0, total_ratings |-> 0])

\* the rating lists a scraped page can hold
ScrapedPages ==
    {<<>>,
     <<[username |-> "u1", book_id |-> index_to_book_id[2], rating |-> 3]>>,
     <<[username |-> "u3", book_id |-> index_to_book_id[0], rating |-> 5],
       [username |-> "u3", book_id |-> index_to_book_id[1], rating |-> 1]>>,
     <<[username |-> "u2", book_id |-> UnlistedBook, rating |-> 4]>>}

----------------------------------------------------------------------------
(* The engine as a state machine *)

MaxSaves == 1

MaxN == 2

\* n_recommendations=6, min_similarity=0.05
DefaultN == 6

DefaultMinSimilarity == Scale \div 20

\* min_similarity: -1.0, 0.0, the default 0.05, 0.5
MinSimilarities == {0 - Scale, 0, DefaultMinSimilarity, Scale \div 2}

NRecommendations == (0 - 1)..MaxN

\* the book ids a caller passes to get_recommendations_for_book
BookIds ==
    {<<WORKS, "OL1W">>, <<"OL1W">>, <<WORKS, "OL2W">>, <<"OL3W">>, <<"OL9W">>,
     <<"sg-a">>, <<"y", WORKS, "OL1W">>, <<WORKS, "ed-1">>}

\* no scrape_book call is running; in a running call pc is "loop" and the
\* record holds current_page, end_page (None without limit),
\* consecutive_empty_pages, the last_page the call found stored (start) and
\* the number of pages it has requested (requests)
IdleScraper == [pc |-> "idle"]

\* the threads of a caller that shares one instance
ThreadIds == {1, 2}

\* a thread that runs no request; pc is the place of a running request, m the
\* rating matrix its compute_similarity call built
IdleThread == [pc |-> "idle", m |-> None]

\* the state after construction over one of the catalogs cats, the rating
\* store holding one of stores
InitOver(cats, stores) ==
    \E cat \in cats, store \in stores, c \in {"ItemBasedCF", "PerBookItemCF"} :
        LET t == BuildIdMapping(cat.test_books, cat.sg_books)
        IN  /\ cls = c
            /\ ol_to_sg_mapping = t.f
            /\ sg_to_ol_mapping = t.r
            /\ book_id_to_index = BuildBookIndex(cat.sg_books, 0, EmptyDict)
            /\ index_to_book_id = BuildIndexToBook(cat.sg_books)
            /\ metadata = BuildMetadata(cat.test_books, EmptyDict)
            /\ similarity_matrix = None
            /\ rating_matrix = None
            /\ test_books = cat.test_books
            /\ users = UserDocs(store, cat.sg_books)
            /\ books_collection = BookDocs(cat.sg_books)
            /\ last = [op |-> "__init__"]
            /\ calls = <<>>
            /\ n_saves = 0
            /\ req_computes = 0
            /\ threads = [th \in ThreadIds |-> IdleThread]
            /\ scraper = IdleScraper

Init == InitOver(Catalogs, Stores)

Tables == <<cls, ol_to_sg_mapping, sg_to_ol_mapping, book_id_to_index,
            index_to_book_id, metadata, test_books>>

\* the scraper stores one page of ratings
SaveRatings ==
    /\ n_saves < MaxSaves
    /\ \E ratings \in ScrapedPages :
          \E st \in {SaveAll([users |-> users, books |-> books_collection], ratings)} :
              /\ users' = st.users
              /\ books_collection' = st.books
              /\ last' = [op |-> "save_ratings_to_mongodb", ratings |-> ratings]
    /\ n_saves' = n_saves + 1
    /\ UNCHANGED <<Tables, similarity_matrix, rating_matrix, calls, req_computes, threads,
                   scraper>>

\* a caller calls compute_similarity(force_recompute)
ComputeSimilarity ==
    \E force_recompute \in BOOLEAN :
        \E eff \in {compute_similarity(force_recompute)} :
            /\ similarity_matrix' = eff.sim
            /\ rating_matrix' = eff.rm
            /\ calls' = Push(calls, CallRec(force_recompute, eff))
            /\ last' = [op |-> "compute_similarity", force_recompute |-> force_recompute,
                        ret |-> eff.ret, matrix |-> eff.matrix, built |-> eff.built,
                        passed |-> eff.passed]
            /\ UNCHANGED <<Tables, users, books_collection, n_saves, req_computes, threads,
                   scraper>>

\* the largest batch size tried
MaxBatch == 5

\* the batched loop of compute_similarity run with a batch size of its own
\* over the first n_items items of the centered matrix of the store
BatchedPass ==
    /\ \E m \in {BuildRatingMatrix(users)} :
          /\ Nnz(m) # 0
          /\ \E c \in {Centered(m)} :
                \E n_items \in 0..m.n_items, size \in 1..MaxBatch :
                    \E out \in {BatchLoopBy(c, m.n_users, n_items, size, 0,
                                             Unwritten(n_items))} :
                        last' = [op |-> "batched_pass", n_items |-> n_items,
                                 size |-> size, n_users |-> m.n_users, centered |-> c,
                                 similarity_matrix |-> out.similarity_matrix,
                                 writes |-> out.writes]
    /\ UNCHANGED <<Tables, threads, users, books_collection, n_saves, similarity_matrix,
                   rating_matrix, calls, req_computes, scraper>>

\* the record of a request kept in last; cached: the instance held a
\* similarity matrix when the request came in
Request(op, seeds, n_recommendations, min_similarity) ==
    [op |-> op, seeds |-> seeds, n_recommendations |-> n_recommendations,
     min_similarity |-> min_similarity, ret |-> <<>>, cols |-> <<>>,
     indices |-> <<>>, scores |-> <<>>, reached |-> FALSE, raised |-> FALSE,
     cached |-> similarity_matrix # None]

\* the scores accumulated into the row of the first seed of the held matrix
HeldAfterScoringInPlace(sim, indices, n_items) ==
    IF sim = None THEN None
    ELSE Some([Val(sim) EXCEPT ![indices[1]] = Combined(Val(sim), indices, n_items)])

\* self.similarity_matrix after the scores of a request were taken from it:
\* the rows are read into a new array (np.zeros(...) and +=, or a row that is
\* only read), the held matrix is as before
HeldAfterScoring(sim, indices, n_items) == sim

\* a request that returns [] before it needs the matrix
NoRetrieval(op, seeds, NS, MS) ==
    /\ \E n_recommendations \in NS, min_similarity \in MS :
          last' = Request(op, seeds, n_recommendations, min_similarity)
    /\ UNCHANGED <<similarity_matrix, rating_matrix, calls, req_computes>>

\* what a request does from the point where its seed columns are known:
\* compute the matrix when there is none, then rank and filter
Retrieve(op, seeds, indices, NS, MS) ==
    LET needed == similarity_matrix = None
        n_items == Cardinality(DOMAIN book_id_to_index)
    IN  \E eff \in {IF needed THEN compute_similarity(FALSE)
                    ELSE [sim |-> similarity_matrix, rm |-> rating_matrix,
                          built |-> FALSE, passed |-> FALSE]} :
        /\ similarity_matrix' = HeldAfterScoring(eff.sim, indices, n_items)
        /\ rating_matrix' = eff.rm
        /\ calls' = IF needed THEN Push(calls, CallRec(FALSE, eff)) ELSE calls
        /\ req_computes' = IF needed /\ (eff.built \/ eff.passed) /\ req_computes < 2
                           THEN req_computes + 1 ELSE req_computes
        /\ IF eff.sim = None
           THEN \* self.similarity_matrix is still None: the except branch returns []
                \E n_recommendations \in NS, min_similarity \in MS :
                    last' = [Request(op, seeds, n_recommendations, min_similarity)
                                EXCEPT !.raised = TRUE, !.reached = TRUE,
                                       !.indices = indices]
           ELSE \E scores \in {Combined(Val(eff.sim), indices, n_items)} :
                \E similar_indices \in ArgsortDescending(scores, 0..(n_items - 1)) :
                \E n_recommendations \in NS, min_similarity \in MS :
                   LET out == RecLoop(similar_indices, 1, indices, scores,
                                      n_recommendations, min_similarity,
                                      IF cls = "PerBookItemCF" THEN Some(seeds[1])
                                      ELSE None,
                                      [recommendations |-> <<>>, cols |-> <<>>])
                   IN  last' = [Request(op, seeds, n_recommendations, min_similarity)
                                   EXCEPT !.reached = TRUE,
                                   !.indices = indices, !.scores = scores,
                                   !.ret = out.recommendations, !.cols = out.cols]

\* sg_book_ids built all or nothing: empty once a seed is not in book_id_to_index
RECURSIVE MappedIdsAllOrNothing(_)
MappedIdsAllOrNothing(user_books) ==
    IF user_books = <<>> THEN <<>>
    ELSE LET sg_id == normalize_book_id(Head(user_books))
             rest == MappedIdsAllOrNothing(Tail(user_books))
         IN  IF sg_id \in DOMAIN book_id_to_index /\ Len(rest) = Len(Tail(user_books))
             THEN <<sg_id>> \o rest
             ELSE <<>>

\* sg_book_ids: the normalized ids of the seeds that are in book_id_to_index
RECURSIVE MappedIds(_)
MappedIds(user_books) ==
    IF user_books = <<>> THEN <<>>
    ELSE LET sg_id == normalize_book_id(Head(user_books))
         IN  IF sg_id \in DOMAIN book_id_to_index
             THEN <<sg_id>> \o MappedIds(Tail(user_books))
             ELSE MappedIds(Tail(user_books))

\* get_recommendations_for_user(user_id, n_recommendations, min_similarity), its
\* last two arguments drawn from NS and MS
UserRequest(NS, MS) ==
    /\ cls = "ItemBasedCF"
    /\ \E user_id \in UserIds :
          LET user_books == get_user_rated_books(user_id)
              sg_book_ids == MappedIds(user_books)
              indices == [k \in 1..Len(sg_book_ids) |-> book_id_to_index[sg_book_ids[k]]]
          IN  IF user_books = <<>> \/ sg_book_ids = <<>>
              THEN NoRetrieval("get_recommendations_for_user", user_books, NS, MS)
              ELSE Retrieve("get_recommendations_for_user", user_books, indices, NS, MS)
    /\ UNCHANGED <<Tables, users, books_collection, n_saves, threads, scraper>>

\* get_recommendations_for_book(book_id, n_recommendations, min_similarity)
BookRequest(NS, MS) ==
    /\ cls = "PerBookItemCF"
    /\ \E book_id \in BookIds :
          LET sg_book_id == normalize_book_id(book_id)
          IN  IF sg_book_id \notin DOMAIN book_id_to_index
              THEN NoRetrieval("get_recommendations_for_book", <<book_id>>, NS, MS)
              ELSE Retrieve("get_recommendations_for_book", <<book_id>>,
                            <<book_id_to_index[sg_book_id]>>, NS, MS)
    /\ UNCHANGED <<Tables, users, books_collection, n_saves, threads, scraper>>

\* the requests main() makes: the default n_recommendations and min_similarity
GetRecommendationsForUser == UserRequest({DefaultN}, {DefaultMinSimilarity})

GetRecommendationsForBook == BookRequest({DefaultN}, {DefaultMinSimilarity})

\* the life of an engine instance: the store changes under it, the matrix is
\* computed on demand or on request, and main()'s requests are served
Next ==
    \/ SaveRatings
    \/ ComputeSimilarity
    \/ GetRecommendationsForUser
    \/ GetRecommendationsForBook

Spec == Init /\ [][Next]_vars

\* requests with any n_recommendations and min_similarity
RequestForUser == UserRequest(NRecommendations, MinSimilarities)

RequestForBook == BookRequest(NRecommendations, MinSimilarities)

NextRetrieval ==
    \/ RequestForUser
    \/ RequestForBook

SpecRetrieval == Init /\ [][NextRetrieval]_vars

\* the matrix side alone: the scraper saves ratings and compute_similarity is
\* called, with and without force_recompute
NextCompute ==
    \/ SaveRatings
    \/ ComputeSimilarity

SpecCompute == Init /\ [][NextCompute]_vars

----------------------------------------------------------------------------
(* Requests of several threads on one instance.  A request is followed from  *)
(* its test of self.similarity_matrix to the return of compute_similarity;   *)
(* the code takes no lock, so the steps of two requests interleave freely.   *)

\* a thread enters a recommendation request whose seeds resolve
Begin(t) ==
    /\ threads[t].pc = "idle"
    /\ threads' = [threads EXCEPT ![t].pc = "test"]
    /\ UNCHANGED <<Tables, users, books_collection, n_saves, similarity_matrix,
                   rating_matrix, calls, req_computes, last, scraper>>

\* if self.similarity_matrix is None: self.compute_similarity()
TestNone(t) ==
    /\ threads[t].pc = "test"
    /\ threads' = [threads EXCEPT ![t].pc = IF similarity_matrix = None THEN "call"
                                            ELSE "rank"]
    /\ UNCHANGED <<Tables, users, books_collection, n_saves, similarity_matrix,
                   rating_matrix, calls, req_computes, last, scraper>>

\* compute_similarity tests the cache itself and returns the matrix it finds
Call(t) ==
    /\ threads[t].pc = "call"
    /\ threads' = [threads EXCEPT ![t].pc = IF UseCached(FALSE) THEN "rank" ELSE "build"]
    /\ UNCHANGED <<Tables, users, books_collection, n_saves, similarity_matrix,
                   rating_matrix, calls, req_computes, last, scraper>>

\* rating_matrix = self.build_rating_matrix(): the computation has begun
Build(t) ==
    /\ threads[t].pc = "build"
    /\ \E b \in {build_rating_matrix} :
          /\ rating_matrix' = b.rm
          /\ threads' = [threads EXCEPT ![t] = [pc |-> "pass", m |-> Some(b.matrix)]]
    /\ UNCHANGED <<Tables, users, books_collection, n_saves, similarity_matrix,
                   calls, req_computes, last, scraper>>

\* the centering and the batched pass over the matrix the thread built, and
\* self.similarity_matrix = similarity_matrix when the matrix had entries
Pass(t) ==
    /\ threads[t].pc = "pass"
    /\ similarity_matrix' = IF Nnz(Val(threads[t].m)) = 0 THEN similarity_matrix
                            ELSE Some(SimilarityOf(Val(threads[t].m)))
    /\ threads' = [threads EXCEPT ![t] = [pc |-> "rank", m |-> None]]
    /\ last' = [op |-> "compute_similarity_in_thread", thread |-> t]
    /\ UNCHANGED <<Tables, users, books_collection, n_saves, rating_matrix, calls,
                   req_computes, scraper>>

\* the request ranks from the held matrix and returns
Return(t) ==
    /\ threads[t].pc = "rank"
    /\ threads' = [threads EXCEPT ![t] = IdleThread]
    /\ last' = [op |-> "request_in_thread", thread |-> t,
                raised |-> similarity_matrix = None]
    /\ UNCHANGED <<Tables, users, books_collection, n_saves, similarity_matrix,
                   rating_matrix, calls, req_computes, scraper>>

NextThreads ==
    \/ \E t \in ThreadIds : Begin(t)
    \/ \E t \in ThreadIds : TestNone(t)
    \/ \E t \in ThreadIds : Call(t)
    \/ \E t \in ThreadIds : Build(t)
    \/ \E t \in ThreadIds : Pass(t)
    \/ \E t \in ThreadIds : Return(t)

SpecThreads == Init /\ [][NextThreads]_vars

----------------------------------------------------------------------------
(* One scraper saving page after page into a store that only it has written *)

MaxScraperSaves == 2

\* pages that rate a pair again, across pages and within one page
RatingPages ==
    {<<>>,
     <<[username |-> "u1", book_id |-> index_to_book_id[0], rating |-> 2]>>,
     <<[username |-> "u1", book_id |-> index_to_book_id[0], rating |-> 4],
       [username |-> "u3", book_id |-> index_to_book_id[1], rating |-> 1]>>,
     <<[username |-> "u3", book_id |-> index_to_book_id[1], rating |-> 5],
       [username |-> "u3", book_id |-> index_to_book_id[1], rating |-> 2],
       [username |-> "u3", book_id |-> index_to_book_id[0], rating |-> 3]>>,
     <<[username |-> "u2", book_id |-> UnlistedBook, rating |-> 4]>>}

\* the rating saved last for every (username, book_id), after the saves of a page
RECURSIVE SavedLast(_, _)
SavedLast(recent, ratings) ==
    IF ratings = <<>> THEN recent
    ELSE SavedLast(Put(recent, <<Head(ratings).username, Head(ratings).book_id>>,
                       Head(ratings).rating),
                   Tail(ratings))

\* save_ratings_to_mongodb(ratings), the record in last keeping what was saved
\* last for every pair so far
ScraperSave ==
    /\ n_saves < MaxScraperSaves
    /\ \E ratings \in RatingPages :
          \E st \in {SaveAll([users |-> users, books |-> books_collection], ratings)} :
              /\ users' = st.users
              /\ books_collection' = st.books
              /\ last' = [op |-> "save_ratings_to_mongodb", ratings |-> ratings,
                          recent |-> SavedLast(IF Has(last, "recent") THEN last.recent
                                               ELSE EmptyDict, ratings)]
    /\ n_saves' = n_saves + 1
    /\ UNCHANGED <<Tables, similarity_matrix, rating_matrix, calls, req_computes, threads,
                   scraper>>

\* the store starts empty or as earlier saves of the scraper left it
InitScraper == InitOver(Catalogs, {StoreEmpty, StoreBasic})

NextScraper == ScraperSave

SpecScraper == InitScraper /\ [][NextScraper]_vars

----------------------------------------------------------------------------
(* scrape_book: one call after the other for one book.  A step of a running  *)
(* call is one pass of its while loop.                                        *)

\* the review listing has no ratings after this page
MaxSitePage == 2

\* the book that is scraped, one of self.book_ids
ScrapedBook == index_to_book_id[0]

\* max_pages: None, or the integer given with --pages
MaxPagesValues == {None, Some(0 - 1), Some(0), Some(1), Some(2)}

\* what scrape_ratings_page can return as ratings for a page: a page up to
\* MaxSitePage holds ratings or none, a later page holds none; a request that
\* fails returns [] for any page
PageRatings(page) ==
    {<<>>} \cup (IF page <= MaxSitePage
                 THEN {<<[username |-> "u1", book_id |-> ScrapedBook, rating |-> 3]>>}
                 ELSE {})

\* get_book_progress(book_id)
get_book_progress(book_id) ==
    IF book_id \notin DOMAIN books_collection
    THEN [book_id |-> book_id, last_page |-> 0, completed |-> FALSE]
    ELSE LET book == books_collection[book_id]
         IN  [book_id |-> book_id,
              last_page |-> IF Has(book, "last_page") THEN book.last_page ELSE 0,
              completed |-> IF Has(book, "completed") THEN book.completed ELSE FALSE]

\* update_book_progress(book_id, last_page, completed) on the documents books
update_book_progress(books, book_id, last_page, completed) ==
    LET progress == [last_page |-> last_page, completed |-> completed]
    IN  IF book_id \in DOMAIN books THEN Put(books, book_id, progress @@ books[book_id])
        ELSE Put(books, book_id, progress)

\* at the page limit, if consecutive_empty_pages > 0: the last page was empty
\* and the book is stored as completed
AtLimitCompleted(consecutive_empty_pages) == consecutive_empty_pages > 0

\* an empty page that is not counted
CountEmptyNever(consecutive_empty_pages) == 0

\* consecutive_empty_pages += 1
CountEmpty(consecutive_empty_pages) == consecutive_empty_pages + 1

\* current_page on entry taken as page 1 whatever is stored
FirstPageOne(progress) == 1

\* current_page = progress["last_page"] + 1, page 1 for a new book
FirstPage(progress) ==
    IF progress.last_page + 1 <= 1 THEN 1 ELSE progress.last_page + 1

\* scrape_book(ScrapedBook, max_pages) up to its loop: a completed book is
\* skipped, otherwise current_page and end_page are set
ScrapeBook ==
    /\ scraper.pc = "idle"
    /\ \E max_pages \in MaxPagesValues :
          LET progress == get_book_progress(ScrapedBook)
              current_page == FirstPage(progress)
              limited == max_pages # None /\ Val(max_pages) # 0
          IN  IF progress.completed
              THEN /\ scraper' = scraper
                   /\ last' = [op |-> "scrape_book", max_pages |-> max_pages,
                               skipped |-> TRUE]
              ELSE /\ scraper' = [pc |-> "loop", current_page |-> current_page,
                                  end_page |-> IF limited
                                               THEN Some(current_page + Val(max_pages) - 1)
                                               ELSE None,
                                  consecutive_empty_pages |-> 0,
                                  start |-> progress.last_page, requests |-> 0]
                   /\ last' = [op |-> "scrape_book", max_pages |-> max_pages,
                               skipped |-> FALSE]
    /\ UNCHANGED <<Tables, users, books_collection, n_saves, similarity_matrix,
                   rating_matrix, calls, req_computes, threads>>

\* one pass of while True: the limit test, or a page requested, saved and
\* recorded as progress
ScrapePage ==
    /\ scraper.pc = "loop"
    /\ LET current_page == scraper.current_page
           at_limit == /\ scraper.end_page # None
                       /\ Val(scraper.end_page) # 0
                       /\ current_page > Val(scraper.end_page)
       IN  IF at_limit
           THEN /\ books_collection' =
                       update_book_progress(books_collection, ScrapedBook, current_page - 1,
                           AtLimitCompleted(scraper.consecutive_empty_pages))
                /\ scraper' = IdleScraper
                /\ last' = [op |-> "scrape_book_limit", page |-> current_page - 1,
                            empties |-> scraper.consecutive_empty_pages]
                /\ users' = users
           ELSE \E ratings \in PageRatings(current_page) :
                \E st \in {SaveAll([users |-> users, books |-> books_collection], ratings)} :
                  LET empties == IF Len(ratings) = 0
                                 THEN CountEmpty(scraper.consecutive_empty_pages)
                                 ELSE 0
                      done == Len(ratings) = 0 /\ empties >= 2
                  IN  /\ users' = st.users
                      /\ books_collection' =
                             update_book_progress(st.books, ScrapedBook, current_page, done)
                      /\ scraper' = IF done THEN IdleScraper
                                    ELSE [scraper EXCEPT
                                            !.current_page = current_page + 1,
                                            !.consecutive_empty_pages = empties,
                                            !.requests = @ + 1]
                      /\ last' = [op |-> "scrape_ratings_page", page |-> current_page,
                                  ratings |-> ratings, empties |-> empties,
                                  first |-> scraper.requests = 0,
                                  start |-> scraper.start,
                                  end_page |-> scraper.end_page]
    /\ UNCHANGED <<Tables, n_saves, similarity_matrix, rating_matrix, calls,
                   req_computes, threads>>

InitScrape == InitOver({CatKeyed, CatOpaque}, {StoreEmpty, StoreBasic})

NextScrape ==
    \/ ScrapeBook
    \/ ScrapePage

SpecScrape == InitScrape /\ [][NextScrape]_vars

\* a running call goes on running: its loop is sequential code
SpecScrapeFair == SpecScrape /\ WF_vars(ScrapePage)

\* the basic scenario: three items and the two users of StoreBasic
InitBasic == InitOver({CatThree}, {StoreBasic})

NextBasic ==
    \/ ComputeSimilarity
    \/ RequestForUser
    \/ RequestForBook

SpecBasic == InitBasic /\ [][NextBasic]_vars

\* the batched loop alone, over the rating stores the scraper leaves
NextBatch ==
    \/ SaveRatings
    \/ BatchedPass

SpecBatch == Init /\ [][NextBatch]_vars

----------------------------------------------------------------------------
(* Claims *)

IsRequest == last.op \in {"get_recommendations_for_user", "get_recommendations_for_book"}

\* a request that got as far as ranking: scores, cols and ret are those of its loop
Ranked == IsRequest /\ last.reached /\ ~last.raised

Columns == 0..(Cardinality(DOMAIN book_id_to_index) - 1)

IsSeedColumn(c) == \E k \in 1..Len(last.indices) : last.indices[k] = c

Returned(c) == \E k \in 1..Len(last.cols) : last.cols[k] = c

\* the matrix compute_similarity owes for the rating data now in the store
FreshSimilarity ==
    LET m == BuildRatingMatrix(users)
    IN  IF Nnz(m) = 0 THEN Zeros(Cardinality(DOMAIN book_id_to_index)) ELSE SimilarityOf(m)

\* the identifier without its '/works/' prefix
BareForm(x) == IF StartsWithWorks(x) THEN StripPrefix(x) ELSE x

\* C1: two successive compute_similarity(force_recompute=False) calls on one
\* instance return the identical matrix, and the computation behind them
\* (build_rating_matrix and the similarity pass) runs at most once over the two.
C1_IdempotentCompute ==
    (Len(calls) = 2 /\ ~calls[1].force_recompute /\ ~calls[2].force_recompute)
        => /\ calls[1].ret = calls[2].ret
           /\ ~(calls[1].computed /\ calls[2].computed)

\* C2: once a recommendation request has needed the similarity matrix the
\* instance holds it (MatrixCached), and requests start at most one computation
\* over the life of the instance.
C2_ComputedOnceByRequests ==
    /\ (IsRequest /\ last.reached) => similarity_matrix # None
    /\ req_computes <= 1

\* C3: compute_similarity(force_recompute=True) returns, and leaves in the
\* cache, the matrix computed from the rating data in the store at that call.
C3_ForceUsesCurrentData ==
    (last.op = "compute_similarity" /\ last.force_recompute)
        => /\ last.ret = FreshSimilarity
           /\ similarity_matrix = Some(last.ret)

\* C4: for every catalog entry, with or without a book_id, normalize_book_id
\* gives the same identifier for its '/works/OL<n>W' form and its 'OL<n>W' form.
C4_BothFormsResolveAlike ==
    \A k \in 1..Len(test_books) :
        LET bare == BareForm(test_books[k]._id)
        IN  IsBareKey(bare)
                => normalize_book_id(WithPrefix(bare)) = normalize_book_id(bare)

\* C5: no record a request returns carries the id of a seed item, in either
\* textual form of that id (the seeds meant are those that resolved to a column).
C5_NoSeedReturned ==
    IsRequest =>
        \A k \in 1..Len(last.ret), j \in 1..Len(last.seeds) :
            normalize_book_id(last.seeds[j]) \in DOMAIN book_id_to_index
                => BareForm(last.ret[k].id) # BareForm(last.seeds[j])

\* C6: every returned record has similarity_score >= min_similarity.
C6_ScoresAtLeastFloor ==
    IsRequest =>
        \A k \in 1..Len(last.ret) : last.ret[k].similarity_score >= last.min_similarity

\* C6 witness: a ranked request kept a record whose score equals the floor and
\* left out a candidate strictly below it.
C6_Witness ==
    /\ Ranked
    /\ \E k \in 1..Len(last.ret) : last.ret[k].similarity_score = last.min_similarity
    /\ \E c \in Columns : ~IsSeedColumn(c) /\ last.scores[c] < last.min_similarity

C8_AtMostN ==
    (IsRequest /\ last.n_recommendations >= 0)
        => Len(last.ret) <= last.n_recommendations

\* C9: the returned records are in non-increasing order of similarity_score,
\* and no candidate that is no seed, scores at least min_similarity and was left
\* out scores strictly higher than a returned record.
C9_RankedDescending ==
    Ranked =>
        /\ \A k \in 1..(Len(last.ret) - 1) :
              last.ret[k].similarity_score >= last.ret[k + 1].similarity_score
        /\ \A c \in Columns :
              (~Returned(c) /\ ~IsSeedColumn(c)
                 /\ last.scores[c] >= last.min_similarity)
                  => \A k \in 1..Len(last.ret) :
                        last.scores[c] <= last.ret[k].similarity_score

\* C9 witness: two records with different scores were returned and a qualifying
\* candidate was left out.
C9_Witness ==
    /\ Ranked
    /\ Len(last.ret) = 2
    /\ last.ret[1].similarity_score > last.ret[2].similarity_score
    /\ \E c \in Columns :
          ~Returned(c) /\ ~IsSeedColumn(c) /\ last.scores[c] >= last.min_similarity

\* C10: of two returned records with equal scores, the one from the lower
\* matrix column comes first.
C10_TiesByColumn ==
    Ranked =>
        \A a, b \in 1..Len(last.ret) :
            (a < b /\ last.ret[a].similarity_score = last.ret[b].similarity_score)
                => last.cols[a] < last.cols[b]

\* the distinct seed columns of the last request, in ascending order
RECURSIVE SortedCols(_)
SortedCols(cs) ==
    IF cs = {} THEN <<>> ELSE <<Min(cs)>> \o SortedCols(cs \ {Min(cs)})

SeedColumns == SortedCols({c \in Columns : IsSeedColumn(c)})

\* the sum of the cached matrix's entries at column c over a list of seed rows
SeedSum(rows, c) ==
    SumOver([k \in 1..Len(rows) |-> Val(similarity_matrix)[rows[k]][c]], 1, Len(rows))

\* q is the fixed-point quotient of total by count (count >= 1)
IsMean(q, total, count) == count * q <= total /\ total < count * (q + 1)

\* C11: the combined score of every column is the mean of the matrix entries
\* of the resolved seed columns at that column, also when two seed identifiers
\* resolve to one column (the column is then one of the seed columns, once).
C11_Original ==
    Ranked =>
        \A c \in Columns :
            IsMean(last.scores[c], SeedSum(SeedColumns, c), Len(SeedColumns))

\* what the loop over indices computes: the mean over the resolved seed
\* identifiers, a row counted once for every identifier that resolves to it
MeanOverResolvedIds ==
    Ranked =>
        \A c \in Columns :
            IsMean(last.scores[c], SeedSum(last.indices, c), Len(last.indices))

\* a request with three resolved seeds, two of them on one column,
\* ranked a column where the rows of the two seed columns differ.
DuplicateSeedRanked ==
    /\ Ranked
    /\ Len(last.indices) = 3
    /\ Len(SeedColumns) = 2
    /\ \E c \in Columns :
          Val(similarity_matrix)[SeedColumns[1]][c] # Val(similarity_matrix)[SeedColumns[2]][c]

\* the seeds of a list that resolve to a matrix column
RECURSIVE Resolvable(_)
Resolvable(seeds) ==
    IF seeds = <<>> THEN <<>>
    ELSE IF normalize_book_id(Head(seeds)) \in DOMAIN book_id_to_index
         THEN <<Head(seeds)>> \o Resolvable(Tail(seeds))
         ELSE Resolvable(Tail(seeds))

\* the lists a request with the given seeds, all of them resolvable, can return
\* on the instance as it is now
ResultsFor(seeds, n_recommendations, min_similarity) ==
    IF seeds = <<>> \/ similarity_matrix = None THEN {<<>>}
    ELSE LET indices == [k \in 1..Len(seeds) |->
                            book_id_to_index[normalize_book_id(seeds[k])]]
             scores == Combined(Val(similarity_matrix), indices, Cardinality(Columns))
         IN  {RecLoop(order, 1, indices, scores, n_recommendations, min_similarity,
                      IF cls = "PerBookItemCF" THEN Some(seeds[1]) ELSE None,
                      [recommendations |-> <<>>, cols |-> <<>>]).recommendations :
                 order \in ArgsortDescending(scores, Columns)}

\* C12: seeds that resolve to no column are ignored: the request returns what a
\* request with the resolvable seeds alone returns, and when no seed resolves it
\* returns the empty list without raising.
C12_UnresolvedSeedsIgnored ==
    IsRequest =>
        /\ last.ret \in ResultsFor(Resolvable(last.seeds), last.n_recommendations,
                                   last.min_similarity)
        /\ Resolvable(last.seeds) = <<>> => (last.ret = <<>> /\ ~last.raised)

\* C12 witness: a request with a seed that resolves and one that does not
\* returned a record.
C12_Witness ==
    /\ IsRequest
    /\ Len(last.seeds) = 2
    /\ Len(Resolvable(last.seeds)) = 1
    /\ Len(last.ret) >= 1

\* no rating record of the store has a rating and a book id in the column index
NoRecordResolves ==
    \A k \in 1..Len(users) :
        \A j \in 1..Len(users[k].book_ratings) :
            LET rating_item == users[k].book_ratings[j]
            IN  \/ ~Has(rating_item, "book_id")
                \/ ~Has(rating_item, "rating")
                \/ rating_item.book_id \notin DOMAIN book_id_to_index

\* C13: when no rating record resolves to a column, the rating matrix
\* compute_similarity gets from build_rating_matrix is all zero with one row and
\* n_items columns, and compute_similarity returns the all-zero n_items x n_items
\* matrix.
C13_EmptyInputGivesZeros ==
    (last.op = "compute_similarity" /\ last.matrix # None /\ NoRecordResolves)
        => /\ Nnz(Val(last.matrix)) = 0
           /\ Val(last.matrix).n_users = 1
           /\ Val(last.matrix).n_items = Cardinality(Columns)
           /\ last.ret = Zeros(Cardinality(Columns))

\* C13 witness: compute_similarity built its rating matrix over a store that
\* holds a rating record, none resolving to a column.
C13_Witness ==
    /\ last.op = "compute_similarity"
    /\ last.matrix # None
    /\ last.built
    /\ NoRecordResolves
    /\ Len(users) >= 1

\* C14: a request always returns a list: the empty list when an exception was
\* caught on the way (as over a store with no ratings) and when no column
\* qualifies; no exception leaves the request.
C14_RequestsReturnLists ==
    IsRequest =>
        /\ DOMAIN last.ret = 1..Len(last.ret)
        /\ last.raised => last.ret = <<>>
        /\ (~Ranked \/ \A c \in Columns :
                           IsSeedColumn(c) \/ last.scores[c] < last.min_similarity)
              => last.ret = <<>>

\* C14 witness: a request with a resolved seed over a store with no ratings
\* ended in the except branch and returned the empty list.
C14_Witness ==
    /\ IsRequest
    /\ users = <<>>
    /\ Len(last.indices) >= 1
    /\ last.raised
    /\ last.ret = <<>>

\* identifiers normalize_book_id is asked about
Identifiers ==
    BookIds \cup {<<WORKS, "OL3W">>, <<WORKS, "OL9W">>, <<"ed-1">>, <<WORKS, "ed-1">>,
                  <<"ed-2">>, <<WORKS, "ed-2">>, <<"sg-b">>, <<WORKS, "sg-b">>,
                  <<"x", WORKS, "OL1W">>, <<"OL4W">>, <<WORKS, "OL4W">>}

\* the resolution order of C15, step by step
ResolvedInOrder(book_id) ==
    IF book_id \in DOMAIN ol_to_sg_mapping THEN ol_to_sg_mapping[book_id]
    ELSE IF ~StartsWithWorks(book_id) /\ WithPrefix(book_id) \in DOMAIN ol_to_sg_mapping
         THEN ol_to_sg_mapping[WithPrefix(book_id)]
    ELSE IF StartsWithWorks(book_id) /\ StripPrefix(book_id) \in DOMAIN ol_to_sg_mapping
         THEN ol_to_sg_mapping[StripPrefix(book_id)]
    ELSE book_id

ExtractedKeys(sg_id) ==
    {key \in {S(k) : k \in KeyChunks} :
        \/ (ContainsWorks(sg_id) /\ SearchPathKey(sg_id) = Some(key))
        \/ SearchKey(sg_id) = Some(key)}

\* the columns whose rating-source id embeds the key
Registering(key) == {c \in Columns : key \in ExtractedKeys(index_to_book_id[c])}

\* C16: for every key that rating-source ids embed, the bare and the
\* path-qualified form of the key both map to the last such id in the order of
\* the rating-source book list, whatever the catalog entries registered.
C16_LastRegistrationWins ==
    \A k \in KeyChunks :
        Registering(S(k)) # {} =>
            LET lastCol == CHOOSE c \in Registering(S(k)) :
                               \A d \in Registering(S(k)) : d <= c
            IN  /\ S(k) \in DOMAIN ol_to_sg_mapping
                /\ WithPrefix(S(k)) \in DOMAIN ol_to_sg_mapping
                /\ ol_to_sg_mapping[S(k)] = index_to_book_id[lastCol]
                /\ ol_to_sg_mapping[WithPrefix(S(k))] = index_to_book_id[lastCol]

\* C16 witness: one key is embedded in two rating-source ids, and another key
\* whose catalog entry names a book_id is embedded in a rating-source id that is
\* not that book_id.
C16_Witness ==
    /\ \E k \in KeyChunks : Cardinality(Registering(S(k))) >= 2
    /\ \E j \in 1..Len(test_books), k \in KeyChunks :
          /\ Has(test_books[j], "book_id")
          /\ BareForm(test_books[j]._id) = S(k)
          /\ Registering(S(k)) # {}
          /\ ol_to_sg_mapping[test_books[j]._id] # test_books[j].book_id

\* a rating record that has a rating and a book id in the column index
Resolves(rating_item) ==
    /\ Has(rating_item, "book_id")
    /\ Has(rating_item, "rating")
    /\ rating_item.book_id \in DOMAIN book_id_to_index

\* the columns a user document has a resolving record for
RatedColumns(user) ==
    {book_id_to_index[user.book_ratings[j].book_id] :
        j \in {i \in 1..Len(user.book_ratings) : Resolves(user.book_ratings[i])}}

\* the positions in the store of the users with a resolving record, in order
RECURSIVE RatedUsers(_)
RatedUsers(k) ==
    IF k > Len(users) THEN <<>>
    ELSE IF RatedColumns(users[k]) # {} THEN <<k>> \o RatedUsers(k + 1)
    ELSE RatedUsers(k + 1)

\* compute_similarity has just built its rating matrix from the store
BuiltNow == last.op = "compute_similarity" /\ last.built

\* C17: the rows of the built matrix are 0..k-1 for the k users with a resolving
\* record, in the order of the store: row r holds entries in exactly the
\* columns of the (r+1)-th such user, users without a resolving record take no
\* row, and the matrix has k rows (1 when k = 0) and one column per item.
C17_DenseRowsInOrder ==
    BuiltNow =>
        LET m == Val(last.matrix)
            rated == RatedUsers(1)
            k == Len(rated)
        IN  /\ {p[1] : p \in DOMAIN m.cells} = 0..(k - 1)
            /\ m.n_users = (IF k = 0 THEN 1 ELSE k)
            /\ m.n_items = Cardinality(Columns)
            /\ \A r \in 0..(k - 1) :
                  {p[2] : p \in {q \in DOMAIN m.cells : q[1] = r}}
                      = RatedColumns(users[rated[r + 1]])

\* C17 witness: the matrix was built over a store whose first user and a user
\* between two rated users have no resolving record.
C17_Witness ==
    /\ BuiltNow
    /\ Len(users) >= 4
    /\ RatedColumns(users[1]) = {}
    /\ Len(RatedUsers(1)) = 2
    /\ RatedUsers(1)[2] - RatedUsers(1)[1] >= 2

\* the ratings a user document records for column i in resolving records
RecordedRatings(user, i) ==
    {user.book_ratings[j].rating :
        j \in {x \in 1..Len(user.book_ratings) :
                  /\ Resolves(user.book_ratings[x])
                  /\ book_id_to_index[user.book_ratings[x].book_id] = i}}

\* the store without the records that lack an id or a rating or name a book
\* outside the column index
ResolvingOnly(store) ==
    [k \in 1..Len(store) |->
        [username |-> store[k].username,
         book_ratings |-> SelectSeq(store[k].book_ratings, Resolves)]]

\* C18: in the built matrix the cell (u, i) is the rating the user of row u
\* records for item i in a record with a rating and a listed book id, and zero
\* when the user has no such record; the records without id, without rating or
\* of an unlisted book change nothing: the matrix is the one built from the
\* store without them.
C18_CellIsRecordedRating ==
    BuiltNow =>
        LET m == Val(last.matrix)
            rated == RatedUsers(1)
        IN  /\ \A u \in 0..(m.n_users - 1) : \A i \in 0..(m.n_items - 1) :
                  IF u < Len(rated) /\ RecordedRatings(users[rated[u + 1]], i) # {}
                  THEN RecordedRatings(users[rated[u + 1]], i) = {Cell(m, u, i)}
                  ELSE Cell(m, u, i) = 0
            /\ \A p \in DOMAIN m.cells : p[1] < m.n_users /\ p[2] < m.n_items
            /\ m = BuildRatingMatrix(ResolvingOnly(users))

\* C18 witness: a matrix built from a store where one user has a record without
\* rating, a record of an unlisted book and rated listed books, and another
\* user has a record without book id.
C18_Witness ==
    /\ BuiltNow
    /\ \E k \in 1..Len(users) :
          /\ RatedColumns(users[k]) # {}
          /\ \E j \in 1..Len(users[k].book_ratings) :
                ~Has(users[k].book_ratings[j], "rating")
          /\ \E j \in 1..Len(users[k].book_ratings) :
                /\ Has(users[k].book_ratings[j], "book_id")
                /\ users[k].book_ratings[j].book_id \notin DOMAIN book_id_to_index
    /\ \E k \in 1..Len(users) : \E j \in 1..Len(users[k].book_ratings) :
          ~Has(users[k].book_ratings[j], "book_id")
    /\ \E p \in DOMAIN Val(last.matrix).cells : Val(last.matrix).cells[p] # 0

\* compute_similarity has just centered a rating matrix and run the pass
PassedNow == last.op = "compute_similarity" /\ last.passed

\* the columns where row u of m holds a non-zero rating
NonZeroColumns(m, u) == {i \in 0..(m.n_items - 1) : Cell(m, u, i) # 0}

\* the sum of the ratings of row u of m
RowSum(m, u) == SumOver([i \in 0..(m.n_items - 1) |-> Cell(m, u, i)], 0, m.n_items - 1)

\* C19 as stated: the mean subtracted from a user's non-zero ratings is the sum
\* of the user's non-zero ratings divided by their number, and zero cells stay
\* zero. With c non-zero ratings of sum s in a row, the centered value r - s/c
\* of a rating r is compared after multiplying by c and by n_items (the model
\* keeps n_items times the centered matrix).
C19_Original ==
    PassedNow =>
        LET m == Val(last.matrix)
            centered == Centered(m)
        IN  \A u \in 0..(m.n_users - 1) : \A i \in 0..(m.n_items - 1) :
              LET c == Cardinality(NonZeroColumns(m, u))
              IN  IF Cell(m, u, i) # 0
                  THEN centered[u][i] * c = m.n_items * (c * Cell(m, u, i) - RowSum(m, u))
                  ELSE centered[u][i] = 0

\* what the code subtracts: the row sum divided by the number of columns
MeanOverAllColumns ==
    PassedNow =>
        LET m == Val(last.matrix)
            centered == Centered(m)
        IN  \A u \in 0..(m.n_users - 1) : \A i \in 0..(m.n_items - 1) :
              IF Cell(m, u, i) # 0
              THEN centered[u][i] = m.n_items * Cell(m, u, i) - RowSum(m, u)
              ELSE centered[u][i] = 0

\* C20: for every number of items and every batch size the batched loop
\* assigns every row of the output exactly once, and the output is the
\* similarity of every item against all items computed in one pass.
C20_BatchedEqualsOnePass ==
    last.op = "batched_pass" =>
        /\ DOMAIN last.writes = 0..(last.n_items - 1)
        /\ \A r \in 0..(last.n_items - 1) : last.writes[r] = 1
        /\ last.similarity_matrix = OnePass(last.centered, last.n_users, last.n_items)

\* C20 witness: a pass over items with ratings whose number is not a multiple
\* of the batch size, in more than one batch.
C20_Witness ==
    /\ last.op = "batched_pass"
    /\ last.size > 1
    /\ last.n_items > last.size
    /\ last.n_items % last.size # 0
    /\ \E r \in 0..(last.n_items - 1) : last.similarity_matrix[r][r] # 0

\* a request for the one seed A (column 0) with min_similarity = 0.0 and n = 2
SeedARequest ==
    /\ IsRequest
    /\ last.indices = <<0>>
    /\ last.min_similarity = 0
    /\ last.n_recommendations = 2

\* C21 as stated: with (A=5, B=4) and (A=1, B=2, C=5) the similarity of A and B
\* is positive and the request for seed A with min_similarity = 0.0 and n = 2
\* returns B and then C.
C21_Original ==
    /\ similarity_matrix # None => Val(similarity_matrix)[0][1] > 0
    /\ SeedARequest => last.cols = <<1, 2>>

\* C21 amended: the similarity of A and B is positive, that of A and C is
\* negative, and the request for seed A with min_similarity = 0.0 and n = 2
\* returns B alone: C ranks after B and falls below the threshold.
C21_BReturnedCBelowFloor ==
    /\ similarity_matrix # None =>
          /\ Val(similarity_matrix)[0][1] > 0
          /\ Val(similarity_matrix)[0][2] < 0
    /\ SeedARequest =>
          /\ last.cols = <<1>>
          /\ last.scores[1] > last.scores[2]
          /\ last.scores[2] < last.min_similarity

\* C21 witness: the request for seed A has been served from the computed matrix
C21_Witness ==
    /\ SeedARequest
    /\ similarity_matrix # None
    /\ Len(last.ret) = 1

\* the items whose centered vector is all zero in the matrix just centered
ZeroItems ==
    LET m == Val(last.matrix)
        centered == Centered(m)
    IN  {i \in 0..(m.n_items - 1) : \A u \in 0..(m.n_users - 1) : centered[u][i] = 0}

\* C22: the matrix compute_similarity returns is symmetric, and an item whose
\* centered vector is all zero has similarity zero with every item.
C22_SymmetricZeroForZeroVector ==
    last.op = "compute_similarity" =>
        /\ \A i \in Columns : \A j \in Columns : last.ret[i][j] = last.ret[j][i]
        /\ PassedNow => \A i \in ZeroItems : \A j \in Columns :
                           last.ret[i][j] = 0 /\ last.ret[j][i] = 0

\* C22 witness: a computed matrix with a non-zero entry off the diagonal, two
\* items of different norm, and an item whose centered vector is all zero.
C22_Witness ==
    /\ PassedNow
    /\ ZeroItems # {}
    /\ \E i \in Columns : \E j \in Columns \ {i} :
          /\ last.ret[i][j] # 0
          /\ \E u \in 0..(Val(last.matrix).n_users - 1) :
                Cell(Val(last.matrix), u, i) # Cell(Val(last.matrix), u, j)

\* the ids under which the metadata of a reverse-mapped id is looked for, in
\* order: the id itself, then its bare-key form or its path-qualified form
MetaForms(id) ==
    <<id>> \o (IF StartsWithWorks(id) THEN <<StripPrefix(id)>> ELSE <<WithPrefix(id)>>)

\* the forms of id that have a metadata entry, in order
FoundForms(id) == SelectSeq(MetaForms(id), LAMBDA f : f \in DOMAIN metadata)

\* the id a column is returned under
ReverseMapped(c) == MapToOl(index_to_book_id[c])

\* C23: every column that is no seed and not below the threshold is returned
\* unless the list was already full, with or without metadata; a returned
\* record carries the metadata of the first form of its reverse-mapped id that
\* has any, and title "Unknown" with no authors when none has; its method is
\* "item_cf".
C23_NeverDroppedForMetadata ==
    Ranked =>
        /\ Len(last.ret) = Len(last.cols)
        /\ \A c \in Columns :
              (~IsSeedColumn(c) /\ last.scores[c] >= last.min_similarity /\ ~Returned(c))
                  => Len(last.ret) >= last.n_recommendations /\ Len(last.ret) >= 1
        /\ \A k \in 1..Len(last.ret) :
              LET rec == last.ret[k]
                  found == FoundForms(ReverseMapped(last.cols[k]))
              IN  /\ rec.id = ReverseMapped(last.cols[k])
                  /\ rec.method = "item_cf"
                  /\ IF found # <<>>
                     THEN /\ rec.title = metadata[found[1]].title
                          /\ rec.author_names = metadata[found[1]].author_names
                     ELSE rec.title = "Unknown" /\ rec.author_names = <<>>

\* C23 witness: a returned list with a record that has no metadata under any
\* form and a record whose metadata is found under the bare-key form only.
C23_Witness ==
    /\ Ranked
    /\ \E k \in 1..Len(last.ret) : FoundForms(ReverseMapped(last.cols[k])) = <<>>
    /\ \E k \in 1..Len(last.ret) :
          LET id == ReverseMapped(last.cols[k])
          IN  /\ id \notin DOMAIN metadata
              /\ FoundForms(id) = <<StripPrefix(id)>>
              /\ last.ret[k].title # "Unknown"

\* the step is a request on an instance that holds a similarity matrix
RequestOnCached == similarity_matrix # None /\ IsRequest' /\ last' # last

\* C24: a request on an instance whose similarity matrix is cached leaves the
\* cached matrix, the forward and reverse identifier tables, the column index
\* and the metadata table as they were.
C24_CachedRequestChangesNothing ==
    [][RequestOnCached =>
          /\ similarity_matrix' = similarity_matrix
          /\ ol_to_sg_mapping' = ol_to_sg_mapping
          /\ sg_to_ol_mapping' = sg_to_ol_mapping
          /\ book_id_to_index' = book_id_to_index
          /\ index_to_book_id' = index_to_book_id
          /\ metadata' = metadata]_vars

\* C24 witness: a request was served with records from a matrix that was
\* already cached when it came in.
C24_Witness ==
    /\ Ranked
    /\ last.cached
    /\ Len(last.ret) >= 1
    /\ similarity_matrix # None

\* the threads whose compute_similarity call is past its cache test and has
\* not returned
InFlight == {t \in ThreadIds : threads[t].pc \in {"build", "pass"}}

\* C25 as stated: with requests of two threads on one instance at most one
\* similarity computation is in flight at any time.
C25_Original == Cardinality(InFlight) <= 1

\* the entries of a user document for a book
EntriesFor(doc, book_id) ==
    {j \in 1..Len(doc.book_ratings) :
        Has(doc.book_ratings[j], "book_id") /\ doc.book_ratings[j].book_id = book_id}

\* the book ids that occur in a user document
BooksOf(doc) ==
    {doc.book_ratings[j].book_id :
        j \in {x \in 1..Len(doc.book_ratings) : Has(doc.book_ratings[x], "book_id")}}

\* C26: after any sequence of saves every user document holds at most one
\* book_ratings entry per book_id, there is one document per username, and
\* the entry of a pair that was saved carries the rating saved last for it.
C26_OneEntryWithLastRating ==
    /\ \A k \in 1..Len(users) : \A b \in BooksOf(users[k]) :
          Cardinality(EntriesFor(users[k], b)) = 1
    /\ \A k \in 1..Len(users) : \A j \in 1..Len(users) :
          users[k].username = users[j].username => k = j
    /\ Has(last, "recent") =>
          \A pair \in DOMAIN last.recent :
              \E k \in 1..Len(users) :
                  /\ users[k].username = pair[1]
                  /\ \A j \in EntriesFor(users[k], pair[2]) :
                        users[k].book_ratings[j].rating = last.recent[pair]
                  /\ EntriesFor(users[k], pair[2]) # {}

\* C26 witness: after two calls, the last of which saved one pair twice with
\* different ratings and found the user's document in the store.
C26_Witness ==
    /\ n_saves = 2
    /\ Has(last, "recent")
    /\ \E i \in 1..Len(last.ratings) : \E j \in (i + 1)..Len(last.ratings) :
          /\ last.ratings[i].username = last.ratings[j].username
          /\ last.ratings[i].book_id = last.ratings[j].book_id
          /\ last.ratings[i].rating # last.ratings[j].rating
          /\ \E k \in 1..Len(users) :
                /\ users[k].username = last.ratings[i].username
                /\ Len(users[k].book_ratings) >= 2

\* the stored progress of the scraped book
Stored == get_book_progress(ScrapedBook)

\* the last step was a pass of the loop of scrape_book
LoopStep == last.op \in {"scrape_book_limit", "scrape_ratings_page"}

\* C27 as stated: scrape_book marks the book completed only when it has found
\* two consecutive pages with no ratings.
C27_Original == (LoopStep /\ Stored.completed) => last.empties >= 2

\* what the code keeps: a book is marked completed only after a page with no
\* ratings, two of them unless the page limit was reached
CompletedAfterEmptyPage ==
    (LoopStep /\ Stored.completed) =>
        /\ last.empties >= 1
        /\ last.op = "scrape_ratings_page" => last.empties >= 2

CompletedSkipped == last.op = "scrape_book" /\ last.skipped /\ Stored.last_page >= 2

\* the pages a run that started after page start can request without ending
PagesLeft(start) == (IF MaxSitePage > start THEN MaxSitePage - start ELSE 0) + 1

\* C29: a running scrape_book call ends, with and without max_pages and with
\* requests that fail: it requests a bounded number of pages, and every
\* running call reaches its return.
C29_ScrapeBookTerminates ==
    /\ [](scraper.pc = "loop" => scraper.requests <= PagesLeft(scraper.start))
    /\ (scraper.pc = "loop") ~> (scraper.pc = "idle")

\* C29 witness: a call without page limit has ended on its second empty page
\* after the last page of the listing.
C29_Witness ==
    /\ last.op = "scrape_ratings_page"
    /\ last.end_page = None
    /\ scraper.pc = "idle"
    /\ last.empties = 2
    /\ last.page > MaxSitePage

\* C30 as stated: the list a request returns holds no two records with the
\* same id.
C30_Original ==
    IsRequest =>
        \A i \in 1..Len(last.ret) : \A j \in 1..Len(last.ret) :
            last.ret[i].id = last.ret[j].id => i = j

\* what the code keeps: no column is returned twice
NoColumnTwice ==
    IsRequest =>
        \A i \in 1..Len(last.cols) : \A j \in 1..Len(last.cols) :
            last.cols[i] = last.cols[j] => i = j

====
